---- MODULE Spec2Model ----
(***************************************************************************)
(* Model of the sustechcourse scraping library (src/src/lib.rs): the CAS   *)
(* login handshake, the grade queries, the form extractor and the table    *)
(* extractor; and of the relay handler of src/src/main.rs.  Strings are TLA+ strings, HTML documents are sequences of   *)
(* nodes in document order with parent pointers (0 is the document root).  *)
(***************************************************************************)
EXTENDS Integers, Sequences, FiniteSets, TLC

VARIABLES
    agent,      \* the session value the caller holds (UserAgent / LoginedAgent / none)
    pc,         \* position inside the running library call
    call,       \* the running (or last) call and its arguments
    client,     \* local `client` of the running call
    form,       \* local `form` of the running call (field map)
    req,        \* last request put on the wire
    resp,       \* last response received
    log,        \* every request issued so far, in order
    result,     \* value returned by the last finished call
    calls,      \* number of grade-query calls made on the session
    src,        \* description of the page `form` was extracted from
    fx,         \* fixture description a document was rendered from
    doc,        \* document handed to an extractor
    out,        \* value returned by the extractor
    done,       \* whether the extractor has run
    handlers,   \* the relay handler invocations and their locals
    jars        \* the cookie store of every Client built by a handler

vars == <<agent, pc, call, client, form, req, resp, log, result, calls, src,
          fx, doc, out, done, handlers, jars>>

relayVars == <<handlers, jars>>

protoVars == <<agent, pc, call, client, form, req, resp, log, result, calls, src>>

---------------------------------------------------------------------------
(* Bounds *)

MaxInputs == 3      \* <input> elements inside a generated form
MaxRows == 3        \* <tr> elements inside a generated table
ExtraCells == 1     \* <td> cells generated beyond the eleven a row can use
MaxAlerts == 2      \* banner candidates on a generated error page
MaxCalls == 2       \* grade-query calls on one authenticated session
NumRequests == 2    \* relay requests handled concurrently
MaxTerms == 2       \* (year, term) pairs in the `terms` list of a relay request

---------------------------------------------------------------------------
(* Strings *)

SeqsUpTo(S, n) == UNION {[1..k -> S] : k \in 0..n}

\* char::is_whitespace, for the characters the fixtures use
IsWhitespace(c) == c \in {" ", "\t", "\n"}

Last(s) == SubSeq(s, Len(s), Len(s))

RECURSIVE TrimStart(_)
TrimStart(s) ==
    IF Len(s) = 0 THEN s
    ELSE IF IsWhitespace(Head(s)) THEN TrimStart(Tail(s)) ELSE s

RECURSIVE TrimEnd(_)
TrimEnd(s) ==
    IF Len(s) = 0 THEN s
    ELSE IF IsWhitespace(Last(s)) THEN TrimEnd(SubSeq(s, 1, Len(s) - 1)) ELSE s

\* str::trim
Trim(s) == TrimEnd(TrimStart(s))

\* str::split_whitespace
RECURSIVE SplitFrom(_, _, _)
SplitFrom(s, cur, acc) ==
    IF Len(s) = 0 THEN (IF Len(cur) = 0 THEN acc ELSE Append(acc, cur))
    ELSE IF IsWhitespace(Head(s))
         THEN SplitFrom(Tail(s), "", IF Len(cur) = 0 THEN acc ELSE Append(acc, cur))
         ELSE SplitFrom(Tail(s), cur \o Head(s), acc)

SplitWhitespace(s) == SplitFrom(s, "", <<>>)

Digit(d) == SubSeq("0123456789", d + 1, d + 1)

\* Display of an unsigned integer: decimal, no padding
RECURSIVE Decimal(_)
Decimal(n) == IF n < 10 THEN Digit(n) ELSE Decimal(n \div 10) \o Digit(n % 10)

---------------------------------------------------------------------------
(* HTML documents (select::document::Document) *)

NoAttrs == [a \in {} |-> ""]

Elem(parent, name, attrs) ==
    [parent |-> parent, name |-> name, attrs |-> attrs, text |-> ""]

TextNode(parent, t) ==
    [parent |-> parent, name |-> "#text", attrs |-> NoAttrs, text |-> t]

\* Node::attr
HasAttr(d, i, a) == a \in DOMAIN d[i].attrs
AttrOf(d, i, a) == d[i].attrs[a]

\* predicates of select::predicate
Attr(a, v) == [type |-> "attr", attr |-> a, value |-> v]
Class(c) == [type |-> "class", attr |-> "class", value |-> c]
Name(n) == [type |-> "name", attr |-> "", value |-> n]

\* Predicate::matches for Attr, Class and Name
MatchesSimple(d, i, p) ==
    CASE p.type = "attr" -> HasAttr(d, i, p.attr) /\ AttrOf(d, i, p.attr) = p.value
      [] p.type = "class" ->
            /\ HasAttr(d, i, "class")
            /\ LET ws == SplitWhitespace(AttrOf(d, i, "class"))
               IN \E k \in 1..Len(ws) : ws[k] = p.value
      [] p.type = "name" -> d[i].name = p.value

RECURSIVE HasAncestor(_, _, _)
HasAncestor(d, i, p) ==
    LET par == d[i].parent
    IN IF par = 0 THEN FALSE
       ELSE MatchesSimple(d, par, p) \/ HasAncestor(d, par, p)

\* Predicate::matches for a.descendant(b)
MatchesDescendant(d, i, a, b) == MatchesSimple(d, i, b) /\ HasAncestor(d, i, a)

RECURSIVE IsInside(_, _, _)
IsInside(d, i, n) ==
    LET par == d[i].parent
    IN IF par = 0 THEN FALSE ELSE par = n \/ IsInside(d, par, n)

Indices(d) == [i \in 1..Len(d) |-> i]

\* Document::find(a.descendant(b)): matching nodes in document order
FindDescendant(d, a, b) ==
    LET Keep(i) == MatchesDescendant(d, i, a, b) IN SelectSeq(Indices(d), Keep)

\* Node::find(p): matching descendants of node n in document order
NodeFind(d, n, p) ==
    LET Keep(i) == IsInside(d, i, n) /\ MatchesSimple(d, i, p) IN SelectSeq(Indices(d), Keep)

\* Node::text: the text nodes of the subtree, concatenated in document order
RECURSIVE TextFrom(_, _, _)
TextFrom(d, n, i) ==
    IF i > Len(d) THEN ""
    ELSE (IF d[i].name = "#text" /\ (i = n \/ IsInside(d, i, n)) THEN d[i].text ELSE "")
         \o TextFrom(d, n, i + 1)

NodeText(d, n) == TextFrom(d, n, n)

---------------------------------------------------------------------------
(* Form extractor (FormFieldExtract for Document) *)

EmptyMap == [k \in {} |-> ""]

\* HashMap::insert: a later insertion replaces the value of an equal key
Insert(m, k, v) == [x \in DOMAIN m \cup {k} |-> IF x = k THEN v ELSE m[x]]

\* HashMap::entry(k).or_insert(v): the first value of a key is kept
InsertIfAbsent(m, k, v) == IF k \in DOMAIN m THEN m ELSE Insert(m, k, v)

InsertField_FirstWins(d, fields, i) ==
    IF HasAttr(d, i, "name") /\ HasAttr(d, i, "value")
    THEN InsertIfAbsent(fields, AttrOf(d, i, "name"), AttrOf(d, i, "value"))
    ELSE fields

\* body of the loop of extract_form
InsertField(d, fields, i) ==
    IF HasAttr(d, i, "name") /\ HasAttr(d, i, "value")
    THEN Insert(fields, AttrOf(d, i, "name"), AttrOf(d, i, "value"))
    ELSE fields

RECURSIVE FoldInputs(_, _, _)
FoldInputs(d, inputs, fields) ==
    IF Len(inputs) = 0 THEN fields
    ELSE FoldInputs(d, Tail(inputs), InsertField(d, fields, Head(inputs)))

extract_form(d, formPred) ==
    FoldInputs(d, FindDescendant(d, formPred, Name("input")), EmptyMap)

---------------------------------------------------------------------------
(* Table extractor (LoginedAgent::parse_courses) *)

\* Iterator::skip
Skip(s, n) == SubSeq(s, n + 1, Len(s))

\* the cell iterator without the call that drops the row-sequence column
OptText_NoDrop(d, elems, k) == IF k - 1 <= Len(elems) /\ k > 1 THEN NodeText(d, elems[k - 1]) ELSE ""

\* NodeExt::text for Option<Node>: the k-th item the cell iterator yields
OptText(d, elems, k) == IF k <= Len(elems) THEN NodeText(d, elems[k]) ELSE ""

\* a Course literal that fills the fields in the order the struct declares them
MakeCourse_DeclOrder(d, elems) ==
    [code        |-> OptText(d, elems, 2),
     term        |-> OptText(d, elems, 3),
     name        |-> OptText(d, elems, 4),
     grade       |-> OptText(d, elems, 5),
     score       |-> OptText(d, elems, 6),
     point       |-> OptText(d, elems, 7),
     hours       |-> OptText(d, elems, 8),
     eval_method |-> OptText(d, elems, 9),
     course_type |-> OptText(d, elems, 10),
     category    |-> OptText(d, elems, 11)]

\* the Course literal: the first item of the iterator is dropped, the fields
\* take the following items in the order the literal lists them
MakeCourse(d, elems) ==
    [term        |-> OptText(d, elems, 2),
     code        |-> OptText(d, elems, 3),
     name        |-> OptText(d, elems, 4),
     grade       |-> OptText(d, elems, 5),
     score       |-> OptText(d, elems, 6),
     point       |-> OptText(d, elems, 7),
     hours       |-> OptText(d, elems, 8),
     eval_method |-> OptText(d, elems, 9),
     course_type |-> OptText(d, elems, 10),
     category    |-> OptText(d, elems, 11)]

\* closure of filter_map: Some(course) as <<course>>, None as << >>
RowCourse(d, row) ==
    LET elems == NodeFind(d, row, Name("td"))
    IN IF Len(elems) >= 3 THEN <<MakeCourse(d, elems)>> ELSE <<>>

RECURSIVE FilterMapRows(_, _)
FilterMapRows(d, rows) ==
    IF Len(rows) = 0 THEN <<>>
    ELSE RowCourse(d, Head(rows)) \o FilterMapRows(d, Tail(rows))

DataRows_NoSkip(d) == FindDescendant(d, Attr("id", "dataList"), Name("tr"))

DataRows(d) == Skip(FindDescendant(d, Attr("id", "dataList"), Name("tr")), 1)

parse_courses(d) == FilterMapRows(d, DataRows(d))

---------------------------------------------------------------------------
(* Fixture pages: the HTML the portal serves, rendered from a description *)

Html == <<Elem(0, "html", NoAttrs), Elem(1, "body", NoAttrs)>>

\* <form id=...> holding the described inputs (every second one wrapped in a
\* <div>), optionally followed by an input outside the form
RECURSIVE AddInputs(_, _, _, _)
AddInputs(nodes, formIdx, inputs, j) ==
    IF j > Len(inputs) THEN nodes
    ELSE IF j % 2 = 0
         THEN AddInputs(nodes \o <<Elem(formIdx, "div", NoAttrs),
                                   Elem(Len(nodes) + 1, "input", inputs[j])>>,
                        formIdx, inputs, j + 1)
         ELSE AddInputs(Append(nodes, Elem(formIdx, "input", inputs[j])),
                        formIdx, inputs, j + 1)

RenderForm(f) ==
    LET withForm == Append(Html, Elem(2, "form", [id |-> f.id]))
        filled == AddInputs(withForm, Len(withForm), f.inputs, 1)
    IN IF f.stray
       THEN Append(filled, Elem(2, "input", [name |-> "lt", value |-> "stray"]))
       ELSE filled

\* text the fixture puts in cell c of row r
CellLabel(r, c) == "r" \o Decimal(r) \o "c" \o Decimal(c)

\* the "blank" variant leaves the fifth cell of every row without text
CellText(f, r, c) == IF f.variant = "blank" /\ c = 5 THEN "" ELSE CellLabel(r, c)

RECURSIVE AddCells(_, _, _, _, _)
AddCells(nodes, f, rowIdx, r, c) ==
    IF c > f.rows[r] THEN nodes
    ELSE LET td == Len(nodes) + 1
             cell == IF CellText(f, r, c) = "" THEN <<Elem(rowIdx, "td", NoAttrs)>>
                     ELSE IF f.variant = "nested"
                          THEN <<Elem(rowIdx, "td", NoAttrs),
                                 Elem(td, "span", NoAttrs),
                                 TextNode(td + 1, "r" \o Decimal(r)),
                                 TextNode(td, "c" \o Decimal(c))>>
                          ELSE <<Elem(rowIdx, "td", NoAttrs),
                                 TextNode(td, CellText(f, r, c))>>
         IN AddCells(nodes \o cell, f, rowIdx, r, c + 1)

RECURSIVE AddRows(_, _, _, _)
AddRows(nodes, f, bodyIdx, r) ==
    IF r > Len(f.rows) THEN nodes
    ELSE LET tr == Len(nodes) + 1
             row == IF f.rows[r] = 0
                    THEN <<Elem(bodyIdx, "tr", NoAttrs), Elem(tr, "th", NoAttrs),
                           TextNode(tr + 1, "header")>>
                    ELSE <<Elem(bodyIdx, "tr", NoAttrs)>>
         IN AddRows(AddCells(nodes \o row, f, tr, r, 1), f, bodyIdx, r + 1)

\* a table of another id with one three-cell row, ahead of the results table
StrayTable ==
    <<Elem(2, "table", [id |-> "other"]), Elem(3, "tr", NoAttrs),
      Elem(4, "td", NoAttrs), TextNode(5, "x1"),
      Elem(4, "td", NoAttrs), TextNode(7, "x2"),
      Elem(4, "td", NoAttrs), TextNode(9, "x3")>>

RenderTable(f) ==
    LET pre == IF f.variant = "stray" THEN Html \o StrayTable ELSE Html
        tableId == IF f.variant = "noid" THEN "other" ELSE "dataList"
        table == pre \o <<Elem(2, "table", [id |-> tableId, class |-> "Nsb_r_list Nsb_table"]),
                          Elem(Len(pre) + 1, "tbody", NoAttrs)>>
    IN AddRows(table, f, Len(table), 1)

\* text of a banner candidate: its message, possibly surrounded by whitespace
AlertText(a) == IF a.pad THEN "\n  " \o a.core \o " \n" ELSE a.core

RECURSIVE AddAlerts(_, _, _, _, _)
AddAlerts(nodes, parentIdx, alerts, j, inForm) ==
    IF j > Len(alerts) THEN nodes
    ELSE IF alerts[j].inForm # inForm THEN AddAlerts(nodes, parentIdx, alerts, j + 1, inForm)
    ELSE LET div == Len(nodes) + 1
             el == IF AlertText(alerts[j]) = ""
                   THEN <<Elem(parentIdx, "div", [class |-> alerts[j].class])>>
                   ELSE <<Elem(parentIdx, "div", [class |-> alerts[j].class]),
                          TextNode(div, AlertText(alerts[j]))>>
         IN AddAlerts(nodes \o el, parentIdx, alerts, j + 1, inForm)

\* the candidates outside the form come first, then <form id="fm1"> with the
\* candidates inside it
RenderError(e) ==
    LET outside == AddAlerts(Html, 2, e.alerts, 1, FALSE)
        withForm == Append(outside, Elem(2, "form", [id |-> "fm1"]))
    IN AddAlerts(withForm, Len(withForm), e.alerts, 1, TRUE)

---------------------------------------------------------------------------
(* Values of the protocol state when no call has been made *)

NoAgent == [kind |-> "none", client |-> 0]
NoCall == [op |-> "none", username |-> "", password |-> "", year |-> 0, term |-> 0]
NoReq == [client |-> 0, method |-> "", url |-> "", query |-> EmptyMap, body |-> EmptyMap]
NoResp == [sent |-> FALSE, status |-> 0, bodyRead |-> FALSE]
NoPage == [id |-> "", inputs |-> <<>>, stray |-> FALSE]
NoResult == [kind |-> "none", client |-> 0, message |-> "", courses |-> <<>>]

ProtoIdle ==
    /\ agent = NoAgent /\ pc = "idle" /\ call = NoCall /\ client = 0
    /\ form = EmptyMap /\ req = NoReq /\ resp = NoResp /\ log = <<>>
    /\ result = NoResult /\ calls = 0 /\ src = NoPage

NoTerms == [present |-> FALSE, list |-> <<>>]
NoInfo == [username |-> "", password |-> "", terms |-> NoTerms]

\* a relay request that has not arrived yet
IdleHandler ==
    [hpc |-> "waiting", info |-> NoInfo, client |-> 0, k |-> 0, key |-> "",
     courses |-> <<>>, reqs |-> <<>>, response |-> NoResult]

RelayIdle ==
    /\ handlers = [r \in 1..NumRequests |-> IdleHandler]
    /\ jars = [c \in {} |-> {}]

---------------------------------------------------------------------------
(* The form extractor applied to generated pages *)

FieldNames == {"lt", "execution"}
FieldValues == {"LT-1", ""}
FormIds == {"fm1", "kscjQueryForm"}

\* an <input> is described by its attributes
InputKinds ==
    {NoAttrs}
    \cup {[name |-> n] : n \in FieldNames}
    \cup {[value |-> v] : v \in FieldValues}
    \cup {[name |-> n, value |-> v] : n \in FieldNames, v \in FieldValues}

FormFixtures ==
    [id : FormIds, sel : FormIds, inputs : SeqsUpTo(InputKinds, MaxInputs), stray : BOOLEAN]

InitForm ==
    /\ fx \in FormFixtures
    /\ doc = RenderForm(fx)
    /\ out = EmptyMap
    /\ done = FALSE
    /\ ProtoIdle
    /\ RelayIdle

ExtractForm ==
    /\ ~done
    /\ out' = extract_form(doc, Attr("id", fx.sel))
    /\ done' = TRUE
    /\ UNCHANGED <<fx, doc>>
    /\ UNCHANGED protoVars
    /\ UNCHANGED relayVars

NextForm == ExtractForm

SpecForm == InitForm /\ [][NextForm]_vars

---------------------------------------------------------------------------
(* The table extractor applied to generated pages *)

TableVariants == {"nested", "blank", "stray", "noid"}

\* a row is described by its number of <td> cells; the variants other than
\* the plain one are rendered for the cell counts around the row gate
CellCounts == 0..(11 + ExtraCells)
GateCounts == {0, 2, 3, 4, 11 + ExtraCells}

TableFixtures ==
    [rows : SeqsUpTo(CellCounts, MaxRows), variant : {"plain"}]
    \cup [rows : SeqsUpTo(GateCounts, MaxRows), variant : TableVariants]

InitTable ==
    /\ fx \in TableFixtures
    /\ doc = RenderTable(fx)
    /\ out = <<>>
    /\ done = FALSE
    /\ ProtoIdle
    /\ RelayIdle

ParseCourses ==
    /\ ~done
    /\ out' = parse_courses(doc)
    /\ done' = TRUE
    /\ UNCHANGED <<fx, doc>>
    /\ UNCHANGED protoVars
    /\ UNCHANGED relayVars

NextTable == ParseCourses

SpecTable == InitTable /\ [][NextTable]_vars

---------------------------------------------------------------------------
(* The sessions: UserAgent::login, LoginedAgent::query_course, all_courses *)

URL_CAS_LOGIN == "https://cas.sustech.edu.cn/cas/login"
URL_COURSE_FORM == "https://jwxt.sustech.edu.cn/jsxsd/kscj/cjcx_query"
URL_COURSE_QUERY == "https://jwxt.sustech.edu.cn/jsxsd/kscj/cjcx_list"

U16Max == 65535

\* what the caller and the portal may supply
Credentials == {<<"alice", "secret">>, <<"bob", "hunter2">>}
Years == {9, 2018, 2023, U16Max}
Terms == {1, 2, 10}
Statuses == {101, 200, 302, 401, 499, 500}

LoginPages ==
    { [id |-> "fm1", stray |-> FALSE,
       inputs |-> <<[name |-> "lt", value |-> "LT-1"],
                    [name |-> "execution", value |-> "e1s1"]>>],
      [id |-> "fm1", stray |-> FALSE,
       inputs |-> <<[name |-> "username", value |-> "guest"],
                    [name |-> "password", value |-> ""],
                    [name |-> "lt", value |-> "LT-2"],
                    [name |-> "submit"]>>],
      [id |-> "fm1", stray |-> TRUE,
       inputs |-> <<[name |-> "lt", value |-> "LT-1"],
                    [name |-> "lt", value |-> "LT-3"]>>],
      [id |-> "login", stray |-> FALSE,
       inputs |-> <<[name |-> "lt", value |-> "LT-1"]>>] }

QueryPages ==
    { [id |-> "kscjQueryForm", stray |-> FALSE,
       inputs |-> <<[name |-> "kksj", value |-> ""],
                    [name |-> "xsfs", value |-> "all"]>>],
      [id |-> "kscjQueryForm", stray |-> TRUE,
       inputs |-> <<[name |-> "kcxz", value |-> "01"],
                    [name |-> "kksj", value |-> "2017-2018-2"],
                    [name |-> "kcmc"]>>],
      [id |-> "fm1", stray |-> FALSE,
       inputs |-> <<[name |-> "kksj", value |-> "2017-2018-2"]>>] }

ResultPages ==
    { [rows |-> <<>>, variant |-> "noid"],
      [rows |-> <<0>>, variant |-> "plain"],
      [rows |-> <<0, 11, 6>>, variant |-> "plain"],
      [rows |-> <<0, 2, 5>>, variant |-> "nested"] }

AlertKinds ==
    [inForm : BOOLEAN, class : {"alert alert-danger", "alerts"},
     core : {"Invalid credentials", ""}, pad : BOOLEAN]

ErrorPages == [alerts : SeqsUpTo(AlertKinds, MaxAlerts)]

IsClientError_Never(s) == FALSE
IsServerError_Never(s) == FALSE

\* StatusCode::is_client_error, StatusCode::is_server_error
IsClientError(s) == s \in 400..499
IsServerError(s) == s \in 500..599

IsErrorStatus_Never(s) == FALSE

\* Response::error_for_status, Response::error_for_status_ref
IsErrorStatus(s) == IsClientError(s) \/ IsServerError(s)

\* StatusCode::canonical_reason
CanonicalReason(s) ==
    CASE s = 101 -> "Switching Protocols"
      [] s = 200 -> "OK"
      [] s = 302 -> "Found"
      [] s = 401 -> "Unauthorized"
      [] s = 403 -> "Forbidden"
      [] s = 500 -> "Internal Server Error"
      [] OTHER -> "<unknown status code>"

\* Display of StatusCode: the code, a space, the canonical reason
DisplayStatus(s) == Decimal(s) \o " " \o CanonicalReason(s)

FallbackMessage_CodeOnly(status) == "server returned " \o Decimal(status)

\* format!("server return {}", status)
FallbackMessage(status) == "server return " \o DisplayStatus(status)

AlertMessage_Untrimmed(text) == text

\* alert.text().trim().to_string()
AlertMessage(text) == Trim(text)

\* the message of the Login error
LoginMessage(d, status) ==
    LET found == FindDescendant(d, Attr("id", "fm1"), Class("alert"))
    IN IF Len(found) > 0 THEN AlertMessage(NodeText(d, found[1]))
       ELSE FallbackMessage(status)

InsertCredentials_KeepScraped(fields, u, p) ==
    InsertIfAbsent(InsertIfAbsent(fields, "username", u), "password", p)

\* form.insert("username", ..); form.insert("password", ..)
InsertCredentials(fields, u, p) == Insert(Insert(fields, "username", u), "password", p)

\* year + 1 on u16: the sum, or on overflow the wrapped value (unchecked
\* build) or a panic (checked build), written -1
YearPlusOne(year) ==
    IF year + 1 <= U16Max THEN {year + 1} ELSE {(year + 1) % (U16Max + 1), -1}

\* format!("{}-{}-{}", year, year + 1, term)
TermKey(year, next, term) == Decimal(year) \o "-" \o Decimal(next) \o "-" \o Decimal(term)

Request(c, method, url, query, body) ==
    [client |-> c, method |-> method, url |-> url, query |-> query, body |-> body]

LogEntry(r) == [client |-> r.client, method |-> r.method, url |-> r.url]

Response(status, bodyRead) == [sent |-> TRUE, status |-> status, bodyRead |-> bodyRead]

Gone == [kind |-> "gone", client |-> 0]

\* a login that borrows the session instead of taking it
Consumed_Kept(a) == a

\* let UserAgent { client } = self: the session value is moved into login
Consumed(a) == Gone

LoginedAgentOf_NewClient(c) == [kind |-> "LoginedAgent", client |-> c + 1]

\* LoginedAgent { client }
LoginedAgentOf(c) == [kind |-> "LoginedAgent", client |-> c]

\* values a call returns
TransportError == [kind |-> "Error", client |-> 0, message |-> "", courses |-> <<>>]
LoginError(m) == [kind |-> "LoginError", client |-> 0, message |-> m, courses |-> <<>>]
OkAgent(a) == [kind |-> "LoginedAgent", client |-> a.client, message |-> "", courses |-> <<>>]
OkCourses(cs) == [kind |-> "Courses", client |-> 0, message |-> "", courses |-> cs]
Panicked == [kind |-> "panic", client |-> 0, message |-> "", courses |-> <<>>]

Init ==
    /\ ProtoIdle
    /\ fx = NoPage /\ doc = <<>> /\ out = <<>> /\ done = FALSE
    /\ RelayIdle

\* UserAgent::new
NewAgent ==
    /\ pc = "idle" /\ agent.kind = "none"
    /\ agent' = [kind |-> "UserAgent", client |-> 1]
    /\ UNCHANGED <<pc, call, client, form, req, resp, log, result, calls, src,
                   fx, doc, out, done, handlers, jars>>

\* a call returns res to its caller
Return(res) == pc' = "idle" /\ result' = res

\* a call ends before it has read a page
NothingScraped == form' = EmptyMap /\ src' = NoPage /\ fx' = NoPage /\ doc' = <<>>

\* UserAgent::login up to the credential POST: the GET of the login page,
\* the extraction of the form and the insertion of the credentials
LoginGet(u, p) ==
    /\ pc = "idle" /\ agent.kind = "UserAgent"
    /\ LET r == Request(agent.client, "GET", URL_CAS_LOGIN,
                        [service |-> URL_COURSE_FORM], EmptyMap)
       IN /\ agent' = Consumed(agent)
          /\ client' = agent.client
          /\ call' = [op |-> "login", username |-> u, password |-> p,
                      year |-> 0, term |-> 0]
          /\ req' = r
          /\ log' = Append(log, LogEntry(r))
    /\ \/ /\ resp' = NoResp
          /\ Return(TransportError)
          /\ NothingScraped
       \/ \E s \in Statuses :
             /\ IsErrorStatus(s)
             /\ resp' = Response(s, FALSE)
             /\ Return(TransportError)
             /\ NothingScraped
       \/ \E s \in Statuses :
             /\ ~IsErrorStatus(s)
             /\ resp' = Response(s, FALSE)
             /\ Return(TransportError)
             /\ NothingScraped
       \/ \E s \in Statuses, page \in LoginPages :
             /\ ~IsErrorStatus(s)
             /\ resp' = Response(s, TRUE)
             /\ fx' = page
             /\ doc' = RenderForm(page)
             /\ src' = page
             /\ form' = InsertCredentials(extract_form(doc', Attr("id", "fm1")), u, p)
             /\ pc' = "login_post"
             /\ result' = NoResult
    /\ UNCHANGED <<calls, out, done, handlers, jars>>

\* UserAgent::login from the credential POST on
LoginPost ==
    /\ pc = "login_post"
    /\ LET r == Request(client, "POST", URL_CAS_LOGIN, EmptyMap, form)
       IN req' = r /\ log' = Append(log, LogEntry(r))
    /\ \/ /\ resp' = NoResp
          /\ Return(TransportError)
          /\ UNCHANGED <<agent, fx, doc>>
       \/ \E s \in Statuses :
             /\ ~IsErrorStatus(s)
             /\ resp' = Response(s, FALSE)
             /\ agent' = LoginedAgentOf(client)
             /\ Return(OkAgent(agent'))
             /\ UNCHANGED <<fx, doc>>
       \/ \E s \in Statuses :
             /\ IsErrorStatus(s) /\ IsClientError(s)
             /\ resp' = Response(s, FALSE)
             /\ Return(TransportError)
             /\ UNCHANGED <<agent, fx, doc>>
       \/ \E s \in Statuses, page \in ErrorPages :
             /\ IsErrorStatus(s) /\ IsClientError(s)
             /\ resp' = Response(s, TRUE)
             /\ fx' = page
             /\ doc' = RenderError(page)
             /\ Return(LoginError(LoginMessage(doc', s)))
             /\ UNCHANGED agent
       \/ \E s \in Statuses :
             /\ IsErrorStatus(s) /\ ~IsClientError(s)
             /\ resp' = Response(s, FALSE)
             /\ Return(TransportError)
             /\ UNCHANGED <<agent, fx, doc>>
    /\ UNCHANGED <<call, client, form, calls, src, out, done, handlers, jars>>

\* LoginedAgent::query_course up to the POST: the GET of the query form, the
\* extraction of the form and the insertion of the term key
QueryGet(year, term) ==
    /\ pc = "idle" /\ agent.kind = "LoginedAgent" /\ calls < MaxCalls
    /\ calls' = calls + 1
    /\ LET r == Request(agent.client, "GET", URL_COURSE_FORM, EmptyMap, EmptyMap)
       IN /\ client' = agent.client
          /\ call' = [op |-> "query_course", username |-> "", password |-> "",
                      year |-> year, term |-> term]
          /\ req' = r
          /\ log' = Append(log, LogEntry(r))
    /\ \/ /\ resp' = NoResp
          /\ Return(TransportError)
          /\ NothingScraped
          /\ UNCHANGED agent
       \/ \E s \in Statuses, bodyRead \in BOOLEAN :
             /\ IsErrorStatus(s) \/ ~bodyRead
             /\ resp' = Response(s, ~IsErrorStatus(s) /\ bodyRead)
             /\ Return(TransportError)
             /\ NothingScraped
             /\ UNCHANGED agent
       \/ \E s \in Statuses, page \in QueryPages, next \in YearPlusOne(year) :
             /\ ~IsErrorStatus(s)
             /\ resp' = Response(s, TRUE)
             /\ fx' = page
             /\ doc' = RenderForm(page)
             /\ src' = page
             /\ IF next = -1
                THEN /\ Return(Panicked)
                     /\ agent' = Gone
                     /\ form' = EmptyMap
                ELSE /\ form' = Insert(extract_form(doc', Attr("id", "kscjQueryForm")),
                                       "kksj", TermKey(year, next, term))
                     /\ pc' = "query_post"
                     /\ result' = NoResult
                     /\ UNCHANGED agent
    /\ UNCHANGED <<out, done, handlers, jars>>

\* LoginedAgent::query_course from the POST on
QueryPost ==
    /\ pc = "query_post"
    /\ LET r == Request(client, "POST", URL_COURSE_QUERY, EmptyMap, form)
       IN req' = r /\ log' = Append(log, LogEntry(r))
    /\ \/ /\ resp' = NoResp
          /\ Return(TransportError)
          /\ UNCHANGED <<fx, doc>>
       \/ \E s \in Statuses, bodyRead \in BOOLEAN :
             /\ IsErrorStatus(s) \/ ~bodyRead
             /\ resp' = Response(s, ~IsErrorStatus(s) /\ bodyRead)
             /\ Return(TransportError)
             /\ UNCHANGED <<fx, doc>>
       \/ \E s \in Statuses, page \in ResultPages :
             /\ ~IsErrorStatus(s)
             /\ resp' = Response(s, TRUE)
             /\ fx' = page
             /\ doc' = RenderTable(page)
             /\ Return(OkCourses(parse_courses(doc')))
    /\ UNCHANGED <<agent, call, client, form, calls, src, out, done, handlers, jars>>

\* LoginedAgent::all_courses
AllCourses ==
    /\ pc = "idle" /\ agent.kind = "LoginedAgent" /\ calls < MaxCalls
    /\ calls' = calls + 1
    /\ LET r == Request(agent.client, "GET", URL_COURSE_QUERY, EmptyMap, EmptyMap)
       IN /\ client' = agent.client
          /\ call' = [op |-> "all_courses", username |-> "", password |-> "",
                      year |-> 0, term |-> 0]
          /\ req' = r
          /\ log' = Append(log, LogEntry(r))
    /\ \/ /\ resp' = NoResp
          /\ Return(TransportError)
          /\ fx' = NoPage /\ doc' = <<>>
       \/ \E s \in Statuses, bodyRead \in BOOLEAN :
             /\ IsErrorStatus(s) \/ ~bodyRead
             /\ resp' = Response(s, ~IsErrorStatus(s) /\ bodyRead)
             /\ Return(TransportError)
             /\ fx' = NoPage /\ doc' = <<>>
       \/ \E s \in Statuses, page \in ResultPages :
             /\ ~IsErrorStatus(s)
             /\ resp' = Response(s, TRUE)
             /\ fx' = page
             /\ doc' = RenderTable(page)
             /\ Return(OkCourses(parse_courses(doc')))
    /\ form' = EmptyMap /\ src' = NoPage
    /\ UNCHANGED <<agent, out, done, handlers, jars>>

Next ==
    \/ NewAgent
    \/ \E cred \in Credentials : LoginGet(cred[1], cred[2])
    \/ LoginPost
    \/ \E year \in Years, term \in Terms : QueryGet(year, term)
    \/ QueryPost
    \/ AllCourses

Spec == Init /\ [][Next]_vars

---------------------------------------------------------------------------
(* The relay: the handler query_course of src/src/main.rs, one invocation  *)
(* per relay request, invocations interleaved at their round trips         *)

libVars == <<agent, pc, call, client, form, req, resp, log, result, calls, src,
             fx, doc, out, done>>

Requests == 1..NumRequests

\* the (year, term) pairs relay requests ask for, in the order of the list
TermSource == << <<2023, 2>>, <<2018, 1>> >>
TermAt(i) == TermSource[((i - 1) % Len(TermSource)) + 1]
TermLists == {<<>>, [i \in 1..MaxTerms |-> TermAt(i)], << <<U16Max, 1>> >>}

SomeTerms(l) == [present |-> TRUE, list |-> l]

CredentialOf(r) == IF r % 2 = 1 THEN <<"alice", "secret">> ELSE <<"bob", "hunter2">>

\* the bodies web::Json<CourseQueryInfo> deserializes
Payloads(r) ==
    {[username |-> CredentialOf(r)[1], password |-> CredentialOf(r)[2], terms |-> t] :
        t \in {NoTerms} \cup {SomeTerms(l) : l \in TermLists}}

\* result pages the grade system answers a query with
RelayPages ==
    { [rows |-> <<0, 11>>, variant |-> "plain"],
      [rows |-> <<0, 11, 6>>, variant |-> "plain"] }

\* the records each result page holds
RelayRecords == [page \in RelayPages |-> parse_courses(RenderTable(page))]

NoTable == [rows |-> <<>>, variant |-> "none"]

\* what a round trip can come back with
RelayStatuses == {200, 401, 500}
RoundTrips == {NoResp} \cup {Response(s, b) : s \in RelayStatuses, b \in BOOLEAN}

\* .send()?.error_for_status()?.parse()?
RoundTripFailed(rt) == ~rt.sent \/ IsErrorStatus(rt.status) \/ ~rt.bodyRead

\* every handler is handed the one Client of the process
NewClient_Shared(j) == 1

\* Client::builder().gzip(true).cookie_store(true).build(): a Client of its
\* own, with an empty cookie store
NewClient(j) == Cardinality(DOMAIN j) + 1

WithJar(j, c) == [x \in DOMAIN j \cup {c} |-> IF x \in DOMAIN j THEN j[x] ELSE {}]

TermsPresent_NonEmpty(info) == info.terms.present /\ info.terms.list # <<>>

\* if let Some(terms) = &info.terms
TermsPresent(info) == info.terms.present

AppendCourses_Front(cs, more) == more \o cs

\* courses.append(&mut ..)
AppendCourses(cs, more) == cs \o more

NoArg == <<>>

\* one request of a handler and what came back for it
Exchange(c, cookies, method, url, arg, key, ok, page) ==
    [client |-> c, cookies |-> cookies, method |-> method, url |-> url,
     arg |-> arg, key |-> key, ok |-> ok, page |-> page]

Sends(h, x) == [h EXCEPT !.reqs = Append(@, x)]

\* the handler returns res; its locals are dropped
Finish(h, res) ==
    [h EXCEPT !.hpc = "done", !.response = res, !.courses = <<>>, !.k = 0, !.key = ""]

\* for (year, term) in terms { .. } Ok(web::Json(courses))
LoopHead(h) ==
    IF h.k > Len(h.info.terms.list) THEN Finish(h, OkCourses(h.courses))
    ELSE [h EXCEPT !.hpc = "query_get"]

\* the statement after login in the handler
AfterLogin(h) ==
    IF TermsPresent(h.info) THEN LoopHead([h EXCEPT !.k = 1])
    ELSE [h EXCEPT !.hpc = "all_courses"]

InitRelay ==
    /\ ProtoIdle
    /\ fx = NoPage /\ doc = <<>> /\ out = <<>> /\ done = FALSE
    /\ RelayIdle

\* request r, the r-th to arrive, arrives: UserAgent::new(), then login up
\* to the credential POST
HandlerLoginGet(r, info) ==
    /\ handlers[r].hpc = "waiting"
    /\ \A q \in 1..(r - 1) : handlers[q].hpc # "waiting"
    /\ LET c == NewClient(jars)
           j == WithJar(jars, c)
           h == [handlers[r] EXCEPT !.info = info, !.client = c]
       IN /\ jars' = j
          /\ \E rt \in RoundTrips :
                LET x == Exchange(c, j[c], "GET", URL_CAS_LOGIN, NoArg, "",
                                  ~RoundTripFailed(rt), NoTable)
                IN handlers' = [handlers EXCEPT ![r] =
                       IF RoundTripFailed(rt) THEN Finish(Sends(h, x), TransportError)
                       ELSE [Sends(h, x) EXCEPT !.hpc = "login_post"]]
    /\ UNCHANGED libVars

\* login from the credential POST on, and the statement that follows it
HandlerLoginPost(r) ==
    /\ handlers[r].hpc = "login_post"
    /\ LET h == handlers[r]
           c == h.client
       IN \E rt \in RoundTrips :
             LET accepted == rt.sent /\ ~IsErrorStatus(rt.status)
                 x == Exchange(c, jars[c], "POST", URL_CAS_LOGIN, NoArg, "",
                               accepted, NoTable)
             IN \/ /\ accepted
                   /\ jars' = [jars EXCEPT ![c] = @ \cup {r}]
                   /\ handlers' = [handlers EXCEPT ![r] = AfterLogin(Sends(h, x))]
                \/ /\ ~accepted
                   /\ jars' = jars
                   /\ handlers' = [handlers EXCEPT ![r] =
                         Finish(Sends(h, x),
                                IF rt.sent /\ IsClientError(rt.status) /\ rt.bodyRead
                                THEN LoginError(FallbackMessage(rt.status))
                                ELSE TransportError)]
    /\ UNCHANGED libVars

\* agent.query_course(*year, *term) up to the POST of the query
HandlerQueryGet(r) ==
    /\ handlers[r].hpc = "query_get"
    /\ LET h == handlers[r]
           c == h.client
           pair == h.info.terms.list[h.k]
       IN \E rt \in RoundTrips, next \in YearPlusOne(pair[1]) :
             LET x == Exchange(c, jars[c], "GET", URL_COURSE_FORM, pair, "",
                               ~RoundTripFailed(rt), NoTable)
             IN handlers' = [handlers EXCEPT ![r] =
                    IF RoundTripFailed(rt) THEN Finish(Sends(h, x), TransportError)
                    ELSE IF next = -1 THEN Finish(Sends(h, x), Panicked)
                    ELSE [Sends(h, x) EXCEPT !.hpc = "query_post",
                                             !.key = TermKey(pair[1], next, pair[2])]]
    /\ UNCHANGED jars
    /\ UNCHANGED libVars

\* agent.query_course from its POST on, courses.append, and the loop head
HandlerQueryPost(r) ==
    /\ handlers[r].hpc = "query_post"
    /\ LET h == handlers[r]
           c == h.client
           pair == h.info.terms.list[h.k]
       IN \E rt \in RoundTrips, page \in RelayPages :
             LET ok == ~RoundTripFailed(rt)
                 recs == IF ok THEN RelayRecords[page] ELSE <<>>
                 x == Exchange(c, jars[c], "POST", URL_COURSE_QUERY, pair, h.key,
                               ok, IF ok THEN page ELSE NoTable)
             IN handlers' = [handlers EXCEPT ![r] =
                    IF ~ok THEN Finish(Sends(h, x), TransportError)
                    ELSE LoopHead([Sends(h, x) EXCEPT
                                     !.courses = AppendCourses(@, recs),
                                     !.k = @ + 1, !.key = ""])]
    /\ UNCHANGED jars
    /\ UNCHANGED libVars

\* agent.all_courses()
HandlerAllCourses(r) ==
    /\ handlers[r].hpc = "all_courses"
    /\ LET h == handlers[r]
           c == h.client
       IN \E rt \in RoundTrips, page \in RelayPages :
             LET ok == ~RoundTripFailed(rt)
                 recs == IF ok THEN RelayRecords[page] ELSE <<>>
                 x == Exchange(c, jars[c], "GET", URL_COURSE_QUERY, NoArg, "",
                               ok, IF ok THEN page ELSE NoTable)
             IN handlers' = [handlers EXCEPT ![r] =
                    Finish(Sends(h, x), IF ok THEN OkCourses(recs) ELSE TransportError)]
    /\ UNCHANGED jars
    /\ UNCHANGED libVars

NextRelay ==
    \/ \E r \in Requests : \E info \in Payloads(r) : HandlerLoginGet(r, info)
    \/ \E r \in Requests : HandlerLoginPost(r)
    \/ \E r \in Requests : HandlerQueryGet(r)
    \/ \E r \in Requests : HandlerQueryPost(r)
    \/ \E r \in Requests : HandlerAllCourses(r)

SpecRelay == InitRelay /\ [][NextRelay]_vars

---------------------------------------------------------------------------
(* Properties of the form extractor (SpecForm) *)

\* the inputs inside the form the selector names, in document order
SelInputs == IF fx.id = fx.sel THEN fx.inputs ELSE <<>>
Complete(j) == "name" \in DOMAIN SelInputs[j] /\ "value" \in DOMAIN SelInputs[j]
IsLastOfName(j) ==
    \A k \in (j + 1)..Len(SelInputs) :
        Complete(k) => SelInputs[k].name # SelInputs[j].name

\* C6 as stated: every input of the selected form that has both a name and a
\* value appears in the map as name -> that exact value, also when several
\* inputs share one name; inputs missing either attribute add no entry; an
\* empty or absent form gives the empty map.
C6_AsStated ==
    done =>
        /\ \A j \in 1..Len(SelInputs) :
              Complete(j) => /\ SelInputs[j].name \in DOMAIN out
                             /\ out[SelInputs[j].name] = SelInputs[j].value
        /\ \A k \in DOMAIN out :
              \E j \in 1..Len(SelInputs) : Complete(j) /\ SelInputs[j].name = k
        /\ (Len(SelInputs) = 0 => DOMAIN out = {})

\* C6 amended: every input of the selected form that has both a name and a
\* value has its name as a key of the map, and the value under a name is the
\* exact value of the last such input in document order with that name;
\* inputs missing either attribute add no entry; an empty or absent form
\* gives the empty map.
C6_ExtractFormLastWins ==
    done =>
        /\ \A j \in 1..Len(SelInputs) :
              Complete(j) => /\ SelInputs[j].name \in DOMAIN out
                             /\ (IsLastOfName(j) =>
                                    out[SelInputs[j].name] = SelInputs[j].value)
        /\ \A k \in DOMAIN out :
              \E j \in 1..Len(SelInputs) : Complete(j) /\ SelInputs[j].name = k
        /\ (Len(SelInputs) = 0 => DOMAIN out = {})

\* two complete inputs share a name with different values, next to an input
\* that lacks an attribute
C6_Witness ==
    /\ done
    /\ \E j, k, m \in 1..Len(SelInputs) :
          /\ j < k /\ Complete(j) /\ Complete(k) /\ ~Complete(m)
          /\ SelInputs[j].name = SelInputs[k].name
          /\ SelInputs[j].value # SelInputs[k].value
          /\ IsLastOfName(k)
          /\ out[SelInputs[k].name] = SelInputs[k].value

---------------------------------------------------------------------------
(* Properties of the table extractor (SpecTable) *)

FieldOrder == <<"term", "code", "name", "grade", "score", "point", "hours",
                "eval_method", "course_type", "category">>

\* the rows of the results table after the first, as the fixture describes them
FixtureDataRows ==
    IF fx.variant = "noid" THEN <<>>
    ELSE [i \in 1..(Len(fx.rows) - 1) |-> i + 1]

HasThreeCells(r) == fx.rows[r] >= 3
ExpectedRows == SelectSeq(FixtureDataRows, HasThreeCells)

\* C7: the first <tr> under dataList is skipped whatever it holds; every other
\* row with at least 3 <td> cells gives exactly one record and a row with
\* fewer gives none; records keep the order of their rows; without a dataList
\* element, or with a header row only, the result is empty.
C7_RowsGateAndOrder ==
    done =>
        /\ Len(out) = Len(ExpectedRows)
        /\ \A i \in 1..Len(out) : out[i].term = CellLabel(ExpectedRows[i], 2)
        /\ (fx.variant = "noid" \/ Len(fx.rows) <= 1 => out = <<>>)

\* a first row with enough cells is skipped, a short row is dropped and the
\* row after it is emitted
C7_Witness ==
    /\ done
    /\ fx.variant # "noid"
    /\ Len(fx.rows) = 3
    /\ fx.rows[1] >= 3 /\ fx.rows[2] < 3 /\ fx.rows[3] >= 3
    /\ Len(out) = 1
    /\ out[1].term = CellLabel(3, 2)

\* C8: for an emitted row with k cells, cell 1 is discarded and the i-th field
\* of term, code, name, grade, score, point, hours, eval_method, course_type,
\* category is the text of cell i+1 when i+1 <= k and empty otherwise; cells
\* beyond the 11th are ignored.
C8_FieldsPositional ==
    done =>
        /\ Len(out) = Len(ExpectedRows)
        /\ \A j \in 1..Len(out) :
              \A i \in 1..Len(FieldOrder) :
                  out[j][FieldOrder[i]] =
                      IF i + 1 <= fx.rows[ExpectedRows[j]]
                      THEN CellText(fx, ExpectedRows[j], i + 1)
                      ELSE ""

\* a row with more than eleven cells and a row with exactly three are emitted
C8_Witness ==
    /\ done
    /\ \E j, k \in 1..Len(out) :
          /\ Len(out) = Len(ExpectedRows)
          /\ fx.rows[ExpectedRows[j]] > 11
          /\ out[j].category = CellLabel(ExpectedRows[j], 11)
          /\ fx.rows[ExpectedRows[k]] = 3
          /\ out[k].code = CellLabel(ExpectedRows[k], 3)
          /\ out[k].name = ""

NonEmptyFields(c) == {i \in 1..Len(FieldOrder) : c[FieldOrder[i]] # ""}

\* data rows with exactly four <td> cells, all of them with text
FourCellRows == {r \in 2..Len(fx.rows) : fx.variant # "noid" /\ fx.rows[r] = 4}

\* C9 as stated: a data row with only 4 <td> cells, all with text, appears in
\* the output with exactly six fields empty and four carrying cell text.
C9_AsStated ==
    done =>
        \A r \in FourCellRows :
            \E j \in 1..Len(out) :
                /\ out[j].term = CellLabel(r, 2)
                /\ Cardinality(NonEmptyFields(out[j])) = 4

\* C9 amended: a data row with only 4 <td> cells, all with text, appears in
\* the output; cell 1 is discarded, term, code and name carry the text of
\* cells 2 to 4 and the other seven fields are empty.
C9_FourCellsThreeFields ==
    done =>
        \A r \in FourCellRows :
            \E j \in 1..Len(out) :
                /\ out[j].term = CellLabel(r, 2)
                /\ out[j].code = CellLabel(r, 3)
                /\ out[j].name = CellLabel(r, 4)
                /\ NonEmptyFields(out[j]) = {1, 2, 3}

C9_Witness ==
    /\ done
    /\ \E r \in FourCellRows :
          \E j \in 1..Len(out) : out[j].term = CellLabel(r, 2) /\ out[j].grade = ""

---------------------------------------------------------------------------
(* Properties of login and query_course (Spec) *)

\* what a page describes: the inputs inside the form of the given id
FormInputs(page, id) == IF page.id = id THEN page.inputs ELSE <<>>
IsComplete(input) == "name" \in DOMAIN input /\ "value" \in DOMAIN input
ScrapedNames(inputs) == {inputs[j].name : j \in {k \in 1..Len(inputs) : IsComplete(inputs[k])}}
LastWithName(inputs, j) ==
    \A k \in (j + 1)..Len(inputs) : IsComplete(inputs[k]) => inputs[k].name # inputs[j].name

\* body carries every scraped field but those in `own` with its scraped value
ForwardsScraped(body, inputs, own) ==
    /\ DOMAIN body = ScrapedNames(inputs) \cup own
    /\ \A j \in 1..Len(inputs) :
          (IsComplete(inputs[j]) /\ inputs[j].name \notin own /\ LastWithName(inputs, j))
              => body[inputs[j].name] = inputs[j].value

\* login has returned after receiving the response of the credential POST
LoginAnswered ==
    /\ pc = "idle" /\ call.op = "login"
    /\ req.method = "POST" /\ req.url = URL_CAS_LOGIN /\ resp.sent

\* the elements of the error page with class alert inside fm1, in document order
IsBanner(a) == a.inForm /\ a.class = "alert alert-danger"
Banners == SelectSeq(fx.alerts, IsBanner)
RejectedWithBody == LoginAnswered /\ IsClientError(resp.status) /\ resp.bodyRead

\* C1: once the login page was fetched, a success status of the credential
\* POST gives a LoginedAgent on the client that sent the GET and the POST, and
\* a 5xx status gives a generic error that is not a Login error.
C1_LoginClassification ==
    LoginAnswered =>
        /\ resp.status \in 200..299 =>
              /\ result.kind = "LoginedAgent"
              /\ agent.kind = "LoginedAgent"
              /\ Len(log) = 2
              /\ log[1] = [client |-> agent.client, method |-> "GET", url |-> URL_CAS_LOGIN]
              /\ log[2] = [client |-> agent.client, method |-> "POST", url |-> URL_CAS_LOGIN]
        /\ resp.status \in 500..599 =>
              /\ result.kind = "Error"
              /\ agent.kind = "gone"

C1_Witness ==
    /\ LoginAnswered
    /\ resp.status = 200
    /\ result.kind = "LoginedAgent"
    /\ agent = [kind |-> "LoginedAgent", client |-> log[2].client]

\* C2 as stated: a 4xx status of the credential POST always ends login with a
\* Login error and never with a generic error, also when the body of the
\* response cannot be read, where the message is the status-code fallback.
C2_AsStated ==
    (LoginAnswered /\ IsClientError(resp.status)) =>
        /\ result.kind = "LoginError"
        /\ (~resp.bodyRead => result.message = FallbackMessage(resp.status))

\* C3 as stated: on 4xx with no alert element inside fm1 the message is
\* exactly "server returned <numeric status>".
C3_AsStated ==
    (RejectedWithBody /\ Len(Banners) = 0) =>
        /\ result.kind = "LoginError"
        /\ result.message = "server returned " \o Decimal(resp.status)

\* C3 amended: on 4xx with no alert element inside fm1 (also when one exists
\* only outside fm1) the message is exactly "server return " followed by the
\* displayed status: the numeric code, a space and the canonical reason
\* phrase, e.g. "server return 401 Unauthorized".
C3_FallbackMessage ==
    (RejectedWithBody /\ Len(Banners) = 0) =>
        /\ result.kind = "LoginError"
        /\ result.message =
              "server return " \o Decimal(resp.status) \o " " \o CanonicalReason(resp.status)
        /\ (resp.status = 401 => result.message = "server return 401 Unauthorized")
        /\ (resp.status = 499 => result.message = "server return 499 <unknown status code>")

\* status 401, the only alert element lies outside fm1
C3_Witness ==
    /\ RejectedWithBody
    /\ resp.status = 401
    /\ Len(Banners) = 0
    /\ \E j \in 1..Len(fx.alerts) :
          ~fx.alerts[j].inForm /\ fx.alerts[j].class = "alert alert-danger"
    /\ result.message = "server return 401 Unauthorized"

\* C4: on 4xx with an alert element inside fm1 the message is the text of the
\* first such element in document order without its leading and trailing
\* whitespace, and the status-code fallback is not used.
C4_BannerMessage ==
    (RejectedWithBody /\ Len(Banners) > 0) =>
        /\ result.kind = "LoginError"
        /\ result.message = Banners[1].core
        /\ result.message # FallbackMessage(resp.status)

\* the only banner is surrounded by whitespace and an empty alert precedes it
\* outside fm1
C4_Witness ==
    /\ RejectedWithBody
    /\ Len(Banners) = 1
    /\ Banners[1].pad /\ Banners[1].core = "Invalid credentials"
    /\ \E j \in 1..Len(fx.alerts) :
          ~fx.alerts[j].inForm /\ fx.alerts[j].class = "alert alert-danger"
                               /\ fx.alerts[j].core = ""
    /\ result.message = "Invalid credentials"

ExampleLoginPage ==
    [id |-> "fm1", stray |-> FALSE,
     inputs |-> <<[name |-> "lt", value |-> "LT-1"],
                  [name |-> "execution", value |-> "e1s1"]>>]

\* C5: the body of the credential POST is the field map of the fm1 form of
\* the login page, values unmodified, with username and password set to the
\* caller's arguments, which replace fields of these names on the page.
C5_SubmittedForm ==
    (req.method = "POST" /\ req.url = URL_CAS_LOGIN) =>
        /\ ForwardsScraped(req.body, FormInputs(src, "fm1"), {"username", "password"})
        /\ req.body["username"] = call.username
        /\ req.body["password"] = call.password
        /\ (src = ExampleLoginPage /\ call.username = "alice" /\ call.password = "secret")
              => req.body = [lt |-> "LT-1", execution |-> "e1s1",
                             username |-> "alice", password |-> "secret"]

\* the page carried its own username field, the caller's value was sent
C5_Witness ==
    /\ req.method = "POST" /\ req.url = URL_CAS_LOGIN
    /\ "username" \in ScrapedNames(FormInputs(src, "fm1"))
    /\ call.username = "alice"
    /\ req.body["username"] = "alice"
    /\ req.body["lt"] = "LT-2"

\* C10 as stated: the body of the POST of query_course(year, term) holds under
\* kksj the key decimal(year)-decimal(year+1)-decimal(term), in place of any
\* scraped kksj, and every other field of kscjQueryForm unchanged.
C10_AsStated ==
    (req.method = "POST" /\ req.url = URL_COURSE_QUERY) =>
        /\ ForwardsScraped(req.body, FormInputs(src, "kscjQueryForm"), {"kksj"})
        /\ req.body["kksj"] =
              Decimal(call.year) \o "-" \o Decimal(call.year + 1) \o "-" \o Decimal(call.term)
        /\ (call.year = 2018 /\ call.term = 1 => req.body["kksj"] = "2018-2019-1")
        /\ (call.year = 2023 /\ call.term = 2 => req.body["kksj"] = "2023-2024-2")

\* the statement of C10 for the years below the largest 16-bit value
C10_BelowMaxYear == call.year < U16Max => C10_AsStated

---------------------------------------------------------------------------
(* Properties of the order of requests and of the session type-state (Spec) *)

GradeUrls == {URL_COURSE_FORM, URL_COURSE_QUERY}

\* a step puts one request on the wire
Sent == Len(log') = Len(log) + 1
NewEntry == log'[Len(log')]

CountIn(l, method, url) ==
    Cardinality({i \in 1..Len(l) : l[i].method = method /\ l[i].url = url})

\* the response just received is a failure: nothing came back, the status is
\* an error status, or the body could not be read
Failed(r) == ~r.sent \/ r.status \in 400..599 \/ ~r.bodyRead

C12_QueryRequests ==
    [][ /\ (pc = "idle" /\ call'.op = "query_course" /\ calls' = calls + 1) =>
              /\ Sent
              /\ NewEntry = [client |-> agent.client, method |-> "GET",
                             url |-> URL_COURSE_FORM]
              /\ pc' = "query_post" => ~Failed(resp')
              /\ Failed(resp') =>
                    pc' = "idle" /\ result'.kind = "Error" /\ result'.courses = <<>>
        /\ pc = "query_post" =>
              /\ Sent
              /\ NewEntry = [client |-> agent.client, method |-> "POST",
                             url |-> URL_COURSE_QUERY]
              /\ log[Len(log)] = [client |-> agent.client, method |-> "GET",
                                  url |-> URL_COURSE_FORM]
              /\ pc' = "idle"
              /\ Failed(resp') => result'.kind = "Error" /\ result'.courses = <<>>
        /\ (pc = "idle" /\ call'.op = "all_courses" /\ calls' = calls + 1) =>
              /\ Sent
              /\ NewEntry = [client |-> agent.client, method |-> "GET",
                             url |-> URL_COURSE_QUERY]
              /\ pc' = "idle"
              /\ Failed(resp') => result'.kind = "Error" /\ result'.courses = <<>>
        /\ (Sent /\ NewEntry.method = "POST" /\ NewEntry.url = URL_COURSE_QUERY) =>
              pc = "query_post" /\ call.op = "query_course"
        /\ CountIn(log', "GET", URL_COURSE_FORM) + CountIn(log', "GET", URL_COURSE_QUERY)
              = calls'
        /\ CountIn(log', "POST", URL_COURSE_QUERY) <= CountIn(log', "GET", URL_COURSE_FORM)
        /\ CountIn(log', "POST", URL_COURSE_FORM) = 0
      ]_vars

\* the GET of query_course succeeded, its POST came back with status 500
C12_Witness ==
    /\ call.op = "query_course" /\ pc = "idle"
    /\ req.method = "POST" /\ req.url = URL_COURSE_QUERY
    /\ resp.sent /\ resp.status = 500
    /\ result.kind = "Error" /\ result.courses = <<>>
    /\ log[Len(log) - 1].url = URL_COURSE_FORM

\* C14: login sends exactly one GET of the login endpoint, with the service
\* parameter naming the grade-query page, then at most one credential POST,
\* the POST only after the GET came back with a non-error status and a
\* readable body; when the GET fails or has an error status login ends with
\* a generic error and the credentials are never sent.
C14_LoginHandshake ==
    [][ /\ (pc = "idle" /\ call'.op = "login" /\ Sent) =>
              /\ req' = [client |-> agent.client, method |-> "GET",
                         url |-> URL_CAS_LOGIN,
                         query |-> [service |-> URL_COURSE_FORM],
                         body |-> EmptyMap]
              /\ NewEntry = [client |-> agent.client, method |-> "GET",
                             url |-> URL_CAS_LOGIN]
              /\ CountIn(log, "GET", URL_CAS_LOGIN) = 0
              /\ pc' = "login_post" => ~Failed(resp')
              /\ Failed(resp') => pc' = "idle" /\ result'.kind = "Error"
        /\ pc = "login_post" =>
              /\ Sent
              /\ NewEntry = [client |-> client, method |-> "POST", url |-> URL_CAS_LOGIN]
              /\ log[Len(log)] = [client |-> client, method |-> "GET",
                                  url |-> URL_CAS_LOGIN]
              /\ ~Failed(resp)
              /\ pc' = "idle"
        /\ (Sent /\ NewEntry.method = "POST" /\ NewEntry.url = URL_CAS_LOGIN) =>
              pc = "login_post"
        /\ (Sent /\ DOMAIN req'.body \cap {"username", "password"} # {}) =>
              pc = "login_post"
        /\ CountIn(log', "GET", URL_CAS_LOGIN) <= 1
        /\ CountIn(log', "POST", URL_CAS_LOGIN) <= CountIn(log', "GET", URL_CAS_LOGIN)
      ]_vars

\* the GET of the login page came back with status 401: generic error, no POST
C14_Witness ==
    /\ call.op = "login" /\ pc = "idle"
    /\ req.method = "GET" /\ resp.sent /\ resp.status = 401
    /\ result.kind = "Error"
    /\ Len(log) = 1
    /\ agent.kind = "gone"

\* C15 as stated: login returns a LoginedAgent only if the final status of
\* the credential POST is in 200..299; for 1xx, 3xx, 4xx and 5xx none is
\* produced.
C15_AsStated ==
    (LoginAnswered /\ (result.kind = "LoginedAgent" \/ agent.kind = "LoginedAgent"))
        => resp.status \in 200..299

\* C15 amended: login returns a LoginedAgent exactly when the final status of
\* the credential POST is not an error status (not 4xx, not 5xx): 2xx gives a
\* session and so do 1xx and an unfollowed 3xx; 4xx and 5xx give none.
C15_SessionUnlessErrorStatus ==
    /\ LoginAnswered =>
          /\ resp.status \notin 400..599 =>
                result.kind = "LoginedAgent" /\ agent.kind = "LoginedAgent"
          /\ resp.status \in 400..599 =>
                result.kind \in {"LoginError", "Error"} /\ agent.kind = "gone"
    /\ (call.op = "login" /\ pc = "idle" /\ ~LoginAnswered) =>
          result.kind = "Error" /\ agent.kind = "gone"

\* the credential POST ended on a redirect status and a session was returned
C15_Witness ==
    /\ LoginAnswered
    /\ resp.status = 302
    /\ result.kind = "LoginedAgent" /\ agent.kind = "LoginedAgent"

\* C18 as stated: for every year in 0..65535 and every term query_course
\* computes the key without overflow, wrap-around or abort, its middle part
\* being year + 1.
C18_AsStated ==
    call.op = "query_course" =>
        /\ result.kind # "panic"
        /\ pc = "query_post" =>
              form["kksj"] = Decimal(call.year) \o "-" \o Decimal(call.year + 1)
                             \o "-" \o Decimal(call.term)

---------------------------------------------------------------------------
(* Properties of the relay handler (SpecRelay) *)

Shape(x) == [method |-> x.method, url |-> x.url, arg |-> x.arg]

\* the j-th request of a handler whose `terms` is the list l: the login GET,
\* the login POST, then for each pair of l in turn the GET of the form page
\* and the POST of the query
ExpectedShape(l, j) ==
    IF j = 1 THEN [method |-> "GET", url |-> URL_CAS_LOGIN, arg |-> NoArg]
    ELSE IF j = 2 THEN [method |-> "POST", url |-> URL_CAS_LOGIN, arg |-> NoArg]
    ELSE IF j % 2 = 1
         THEN [method |-> "GET", url |-> URL_COURSE_FORM, arg |-> l[(j - 1) \div 2]]
         ELSE [method |-> "POST", url |-> URL_COURSE_QUERY, arg |-> l[(j - 2) \div 2]]

\* the records that came back for the queries of a handler, in request order
RECURSIVE Collected(_)
Collected(xs) ==
    IF xs = <<>> THEN <<>>
    ELSE LET x == Head(xs)
         IN (IF x.ok /\ x.page # NoTable THEN RelayRecords[x.page] ELSE <<>>)
            \o Collected(Tail(xs))

Listed(h) == h.info.terms.present

\* C16: in a handler whose request carries a list of pairs, login completes
\* before any query, the queries go out one term after another in the order
\* of the list, and the response is the concatenation of the terms' records
\* in that order; when login or the query of a term fails the handler returns
\* an error and no record, and no later request is issued.
C16_SequentialInOrder ==
    \A r \in Requests :
        LET h == handlers[r]
            l == h.info.terms.list
            n == Len(h.reqs)
        IN Listed(h) =>
              /\ n <= 2 + 2 * Len(l)
              /\ \A j \in 1..n : Shape(h.reqs[j]) = ExpectedShape(l, j)
              /\ \A j \in 1..(n - 1) : h.reqs[j].ok
              /\ (n > 0 /\ ~h.reqs[n].ok) =>
                    /\ h.hpc = "done"
                    /\ h.response.kind \in {"Error", "LoginError"}
                    /\ h.response.courses = <<>>
              /\ h.response.kind = "Courses" =>
                    /\ h.hpc = "done"
                    /\ n = 2 + 2 * Len(l)
                    /\ h.reqs[n].ok
                    /\ h.response.courses = Collected(h.reqs)
              /\ h.response.kind = "panic" =>
                    /\ h.hpc = "done"
                    /\ h.response.courses = <<>>
                    /\ h.reqs[n].arg[1] = U16Max
              /\ h.hpc = "done" =>
                    h.response.kind \in {"Courses", "Error", "LoginError", "panic"}
              /\ h.hpc # "done" => h.response = NoResult

\* one request was answered with two terms' different records, first term
\* first; another failed on its second term after the first had succeeded
C16_Witness ==
    \E r1, r2 \in Requests :
        /\ handlers[r1].response.kind = "Courses"
        /\ Len(handlers[r1].reqs) = 6
        /\ handlers[r1].reqs[4].page # handlers[r1].reqs[6].page
        /\ handlers[r1].response.courses =
              RelayRecords[handlers[r1].reqs[4].page]
              \o RelayRecords[handlers[r1].reqs[6].page]
        /\ handlers[r2].response.kind = "Error"
        /\ Len(handlers[r2].reqs) = 6
        /\ handlers[r2].reqs[4].ok /\ ~handlers[r2].reqs[6].ok
        /\ handlers[r2].response.courses = <<>>

\* C17: every relay request builds a Client and cookie store of its own and
\* sends all its requests on it: no two requests hold the same Client, a
\* cookie store holds only the session cookie of the request that owns it,
\* and no request is sent with another request's session cookie.
C17_OwnTransport ==
    /\ \A r1, r2 \in Requests :
          (r1 # r2 /\ handlers[r1].client # 0 /\ handlers[r2].client # 0)
              => handlers[r1].client # handlers[r2].client
    /\ \A r \in Requests :
          /\ handlers[r].client # 0 => handlers[r].client \in DOMAIN jars
          /\ \A j \in 1..Len(handlers[r].reqs) :
                /\ handlers[r].reqs[j].client = handlers[r].client
                /\ handlers[r].reqs[j].cookies \subseteq {r}
    /\ \A c \in DOMAIN jars :
          /\ Cardinality({r \in Requests : handlers[r].client = c}) = 1
          /\ \A q \in jars[c] : handlers[q].client = c

\* two requests are both between the GET and the POST of a term query, each
\* on its own Client carrying its own session cookie
C17_Witness ==
    \E r1, r2 \in Requests :
        /\ r1 # r2
        /\ handlers[r1].hpc = "query_post" /\ handlers[r2].hpc = "query_post"
        /\ jars[handlers[r1].client] = {r1}
        /\ jars[handlers[r2].client] = {r2}
        /\ handlers[r1].reqs[3].cookies = {r1}
        /\ handlers[r2].reqs[3].cookies = {r2}

CountReqs(h, method, url) ==
    Cardinality({j \in 1..Len(h.reqs) :
                    h.reqs[j].method = method /\ h.reqs[j].url = url})

LoggedIn(h) == Len(h.reqs) >= 2 /\ h.reqs[2].ok

\* C19: which path the handler takes depends only on whether `terms` is
\* present: without it, one all_courses request follows login and no
\* query_course request is made; with it, all_courses is never requested, and
\* with a present but empty list the handler answers an empty result right
\* after login, without any grade-query request.
C19_PathByPresence ==
    \A r \in Requests :
        LET h == handlers[r]
        IN /\ (h.hpc # "waiting" /\ ~h.info.terms.present) =>
                 /\ CountReqs(h, "GET", URL_COURSE_FORM) = 0
                 /\ CountReqs(h, "POST", URL_COURSE_QUERY) = 0
                 /\ CountReqs(h, "GET", URL_COURSE_QUERY) <= 1
                 /\ (h.hpc = "done" /\ LoggedIn(h)) =>
                       /\ Len(h.reqs) = 3
                       /\ Shape(h.reqs[3]) =
                             [method |-> "GET", url |-> URL_COURSE_QUERY, arg |-> NoArg]
                 /\ (LoggedIn(h) /\ h.hpc # "done") =>
                       h.hpc = "all_courses" /\ Len(h.reqs) = 2
           /\ (h.hpc # "waiting" /\ h.info.terms.present) =>
                 /\ CountReqs(h, "GET", URL_COURSE_QUERY) = 0
                 /\ h.hpc # "all_courses"
                 /\ (LoggedIn(h) /\ h.info.terms.list = <<>>) =>
                       /\ h.hpc = "done"
                       /\ h.response = OkCourses(<<>>)
                       /\ Len(h.reqs) = 2
                 /\ (LoggedIn(h) /\ h.info.terms.list # <<>>) =>
                       /\ Len(h.reqs) >= 3 \/ h.hpc = "query_get"
                       /\ Len(h.reqs) >= 3 =>
                             h.reqs[3].url = URL_COURSE_FORM

\* one request without `terms` was answered through all_courses, another with
\* an empty list was answered with no record after its login
C19_Witness ==
    \E r1, r2 \in Requests :
        /\ ~handlers[r1].info.terms.present
        /\ handlers[r1].response.kind = "Courses"
        /\ handlers[r1].response.courses # <<>>
        /\ Len(handlers[r1].reqs) = 3
        /\ handlers[r2].info.terms = SomeTerms(<<>>)
        /\ handlers[r2].response = OkCourses(<<>>)
        /\ Len(handlers[r2].reqs) = 2
        /\ handlers[r2].reqs[2].ok

====
